---- MODULE Spec2Model ----
(***************************************************************************)
(* Credential and token lifecycle of the authentication backend:           *)
(* src/src/controllers/auth.controllers.js (the ten controllers),          *)
(* src/src/middlewares/auth.middleware.js (verifyJWT) and the user schema   *)
(* with its hooks and methods (src/unnamed/part_000, lines 153-359).        *)
(*                                                                         *)
(* A request handler is an operator from the world it runs in (the users    *)
(* collection, the tokens and mails that left the server, the clock) and    *)
(* the request's inputs to its result: the response and the world it        *)
(* leaves.  One action per route applies the handler to the current world;  *)
(* an action is the whole request: the middleware chain, the controller     *)
(* and every store write it makes.                                          *)
(*                                                                         *)
(* Time: `now` is the wall clock read by Date.now() and by jsonwebtoken,    *)
(* observed at whole seconds (the resolution of a JWT's iat).  Several      *)
(* requests may be served within the same second.                           *)
(***************************************************************************)
EXTENDS Integers, Sequences, FiniteSets, TLC

\* ------------------------------------------------------------------ bounds
\* Last second of the clock.
MaxTime == 1
\* process.env.ACCESS_TOKEN_EXPIRY and process.env.REFRESH_TOKEN_EXPIRY, in
\* seconds (deployment configuration).
AccessTokenExpiry == 1
RefreshTokenExpiry == 2
\* The 20-minute window of generateTemporaryToken (20 * 60 * 1000 ms), scaled
\* to the seconds of the bounded clock.
TemporaryTokenWindow == 1
\* Number of mails handed to sendEmail in one run.
MaxMails == 2

\* ------------------------------------------------------------------ inputs
\* Request bodies that pass the express-validator chains of the routes.
Emails == {"a@x", "A@X", "b@x"}
Usernames == {"alice", "bob"}
Passwords == {"pw1", "pw2"}

\* ------------------------------------------------------------- primitives
\* String lowercase, on the inputs above (schema option lowercase: true).
toLowerCase(s) == IF s = "A@X" THEN "a@x" ELSE s

\* A field that is not set on a document; a variable bound by destructuring a
\* key the object does not have.
undefined == <<>>

\* crypto.createHash("sha256").update(t).digest("hex")
sha256(t) == <<"sha256", t>>

\* A string held by the password field: the request's plaintext after some
\* applications of bcrypt.hash (0: the plaintext itself).
text(p) == <<0, p>>

\* bcrypt.hash(s, 10): one-way; the random salt does not influence compare.
bcryptHash(s) == <<s[1] + 1, s[2]>>

\* A comparison that accepts any plaintext against any bcrypt hash.
bcryptCompare_anyPlaintext(p, h) == h[1] = 1

\* bcrypt.compare(p, h): h is a bcrypt hash of the plaintext p.
bcryptCompare(p, h) == h = bcryptHash(text(p))

\* A JWT is the HS256 signature, under `secret`, of the payload {_id, iat,
\* exp}: two tokens signed for the same user in the same second are the same
\* string.  The email and username of an access token's payload are functions
\* of _id (no route changes them) and are left out.
jwtSign(sub, secret, expiresIn, t) ==
    [secret |-> secret, sub |-> sub, iat |-> t, exp |-> t + expiresIn]

\* refreshToken field values that are not a JWT: unset, and the "" of logout.
\* noToken is also the cookie, header or body field a request does not carry.
noToken == [secret |-> "undefined", sub |-> 0, iat |-> 0, exp |-> 0]
emptyString == [secret |-> "", sub |-> 0, iat |-> 0, exp |-> 0]
\* !x of a cookie, header or body field: it is absent or the empty string.
falsy(x) == x \in {noToken, emptyString}
\* A token signed with a key that is neither of the server's secrets.
forgedToken == [secret |-> "FORGED", sub |-> 1, iat |-> 0, exp |-> MaxTime + 1]

\* A verification under one key shared by the two kinds of token.
jwtVerify_sharedSecret(token, secret, t) ==
    /\ token.secret \in {"ACCESS_TOKEN_SECRET", "REFRESH_TOKEN_SECRET"}
    /\ t < token.exp

\* A verification that checks the signature and not the expiry.
jwtVerify_ignoreExpiration(token, secret, t) == token.secret = secret

\* jwt.verify(token, secret) returns the payload: the signature matches and
\* the clock has not reached exp.
jwtVerify(token, secret, t) == token.secret = secret /\ t < token.exp

\* users:  the users collection, a document per _id 1..Len(users)
\* issued: the (user, second) of every token pair the server has signed
\* mails:  the mails handed to the mail collaborator
\* now:    the clock
\* members: the ProjectMember collection (no route of the application
\*          writes it)
\* registering: the Register requests whose findOne was answered with "no
\*          such user" and whose User.create has not run yet
\* refreshing: the RefreshAccessToken requests that passed the comparison of
\*          their token with the stored one, each with its position
\* loggedOut: the users for whom a Logout served concurrently with the
\*          requests of refreshing has completed
VARIABLES users, issued, mails, now, members, registering, refreshing, loggedOut

vars == <<users, issued, mails, now, members, registering, refreshing, loggedOut>>

\* The world a request runs in: the store, the clock, whether the SMTP
\* server takes the mail of this request (smtp), and whether the store
\* answers the calls of generateAccessAndRefreshTokens (db).
World == [users |-> users, issued |-> issued, mails |-> mails, now |-> now, smtp |-> TRUE,
          db |-> TRUE]

\* ------------------------------------------------------------ user schema
\* new User({...}): the schema defaults; no token field is set.
\* A registration that marks the email as verified from the start.
newUser_verified(email, username, password) ==
    [ username |-> username,
      email |-> toLowerCase(email),
      password |-> text(password),
      isEmailVerified |-> TRUE,
      refreshToken |-> noToken,
      forgotPasswordToken |-> undefined,
      forgotPasswordExpiry |-> undefined,
      emailVerificationToken |-> undefined,
      emailVerificationExpiry |-> undefined ]

newUser(email, username, password) ==
    [ username |-> username,
      email |-> toLowerCase(email),
      password |-> text(password),
      isEmailVerified |-> FALSE,
      refreshToken |-> noToken,
      forgotPasswordToken |-> undefined,
      forgotPasswordExpiry |-> undefined,
      emailVerificationToken |-> undefined,
      emailVerificationExpiry |-> undefined ]

\* A hook that hashes the password of new documents only.
preSave_newDocumentsOnly(doc, loaded, isNew) ==
    IF isNew THEN [doc EXCEPT !.password = bcryptHash(doc.password)] ELSE doc

\* A hook that stores the password as it was assigned.
preSave_disabled(doc, loaded, isNew) == doc

\* A hook without the isModified("password") test: every save hashes.
preSave_everySave(doc, loaded, isNew) ==
    [doc EXCEPT !.password = bcryptHash(doc.password)]

\* userSchema.pre("save"): hash the password iff the document's password
\* differs from the one that was loaded (isModified("password")); a new
\* document has every path modified.
preSave(doc, loaded, isNew) ==
    IF isNew \/ doc.password # loaded.password
    THEN [doc EXCEPT !.password = bcryptHash(doc.password)]
    ELSE doc

userSchema_isPasswordCorrect(doc, password) == bcryptCompare(password, doc.password)

userSchema_generateAccessToken(id, t) ==
    jwtSign(id, "ACCESS_TOKEN_SECRET", AccessTokenExpiry, t)

userSchema_generateRefreshToken(id, t) ==
    jwtSign(id, "REFRESH_TOKEN_SECRET", RefreshTokenExpiry, t)

\* generateTemporaryToken: n is the value of crypto.randomBytes(20), t the
\* value of Date.now().
generateTemporaryToken(n, t) ==
    [ unHashedToken |-> n,
      HashedToken |-> sha256(n),
      tokenExpiry |-> <<t + TemporaryTokenWindow>> ]

\* const { k } = obj
destructure(obj, k) == IF k \in DOMAIN obj THEN obj[k] ELSE undefined

\* The value of crypto.randomBytes(20) of the next call: one never drawn
\* before (every generated token is handed to sendEmail).
randomBytes(w) == Cardinality(w.mails) + 1

\* ---------------------------------------------------------------- queries
\* The lookup with $and in place of $or.
findByUsernameOrEmail_and(w, username, email) ==
    {i \in DOMAIN w.users : /\ w.users[i].username = username
                            /\ w.users[i].email = toLowerCase(email)}

\* User.findOne({ $or: [{ username }, { email }] }); the query is cast by the
\* schema, which lowercases the email.
findByUsernameOrEmail(w, username, email) ==
    {i \in DOMAIN w.users : \/ w.users[i].username = username
                            \/ w.users[i].email = toLowerCase(email)}

\* User.findOne({ email })
findByEmail(w, email) == {i \in DOMAIN w.users : w.users[i].email = toLowerCase(email)}

\* User.findOne({ <field>: hashedToken, <expiry>: { $gt: Date.now() } })
findByToken(w, tokenField, expiryField, hashedToken) ==
    {i \in DOMAIN w.users : /\ w.users[i][tokenField] = hashedToken
                            /\ w.users[i][expiryField] # undefined
                            /\ w.users[i][expiryField][1] > w.now}

\* A collection without unique indexes admits every document.
uniqueIndexes_none(w, doc) == TRUE

\* The unique indexes on username and email admit the document.
uniqueIndexes(w, doc) ==
    \A i \in DOMAIN w.users : /\ w.users[i].username # doc.username
                              /\ w.users[i].email # doc.email

\* ------------------------------------------------------------- responses
\* The result of a request: the world it leaves, the status and message of
\* the response, the id of the user it acted for or on (0: none), the tokens
\* in its body and what it did to the two cookies.
reply(w, status, message) ==
    [ w |-> w, status |-> status, message |-> message, uid |-> 0,
      accessToken |-> noToken, refreshToken |-> noToken, cookies |-> "none",
      body |-> "ApiResponse", user |-> <<>> ]

\* new ApiError(statusCode, message), and an error of another class (a
\* driver, transport or library error), which has no statusCode.
ApiError(statusCode, message) == [statusCode |-> statusCode, message |-> message]
Error(message) == [statusCode |-> 0, message |-> message]

\* asyncHandler: .catch((err) => next(err)).  The application mounts no
\* error-handling middleware, so the error reaches the default handler of
\* Express: the status is err.statusCode when that is an error status and 500
\* otherwise, and the body is an HTML page with the message.
next(w, err) ==
    [reply(w, IF err.statusCode \in 400..599 THEN err.statusCode ELSE 500, err.message)
       EXCEPT !.body = "text/html"]

\* The fields a document has a value for.
isSet(doc, f) ==
    CASE f \in {"forgotPasswordToken", "forgotPasswordExpiry",
                "emailVerificationToken", "emailVerificationExpiry"} -> doc[f] # undefined
      [] f = "refreshToken" -> doc[f] # noToken
      [] OTHER -> TRUE

\* .select("-password -refreshToken -emailVerificationToken
\* -emailVerificationExpiry"): the document without these four fields.
select(doc) ==
    [f \in {g \in DOMAIN doc \ {"password", "refreshToken", "emailVerificationToken",
                                 "emailVerificationExpiry"} : isSet(doc, g)} |-> doc[f]]

\* transporter.sendMail(mail): resolves, or rejects when the SMTP server
\* cannot be reached or refuses the mail.
transporterSendMail(w) == IF w.smtp THEN "resolved" ELSE "rejected"

\* mails records every mail sendEmail was called with.
handed(w, subject, to, unHashedToken) ==
    [w EXCEPT !.mails = @ \cup {[subject |-> subject, to |-> to,
                                 unHashedToken |-> unHashedToken]}]

\* A sendEmail without the try/catch around transporter.sendMail.
sendEmail_rethrows(w, subject, to, unHashedToken) ==
    [ w |-> handed(w, subject, to, unHashedToken),
      error |-> IF transporterSendMail(w) = "rejected" THEN "ESOCKET" ELSE "",
      logged |-> FALSE ]

\* sendEmail(options): the rejection of transporter.sendMail is caught and
\* written to the console; sendEmail itself resolves.
sendEmail(w, subject, to, unHashedToken) ==
    [ w |-> handed(w, subject, to, unHashedToken),
      error |-> "",
      logged |-> transporterSendMail(w) = "rejected" ]

\* user.save({ validateBeforeSave: false }) of a document loaded as users[id]
save(w, id, doc) == [w EXCEPT !.users[id] = preSave(doc, w.users[id], FALSE)]

\* User.create({...}): the pre-save hook runs on the new document.
create(w, doc) == [w EXCEPT !.users = Append(@, preSave(doc, doc, TRUE))]

\* --------------------------------------------------------------- register
\* registerUser from User.create on, in the world w it finds after its
\* findOne was answered.
registerUser_create(w, email, username, password) ==
    IF ~uniqueIndexes(w, newUser(email, username, password))
    \* the duplicate-key error of the driver is no ApiError
    THEN next(w, Error("E11000 duplicate key error"))
    ELSE LET w1 == create(w, newUser(email, username, password))
             id == Len(w1.users)
             tmp == generateTemporaryToken(randomBytes(w1), w1.now)
             unHashedToken == destructure(tmp, "unHashedToken")
             hashedToken == destructure(tmp, "hashedToken")
             tokenExpiry == destructure(tmp, "tokenExpiry")
             user == [w1.users[id] EXCEPT !.emailVerificationToken = hashedToken,
                                          !.emailVerificationExpiry = tokenExpiry]
             w2 == save(w1, id, user)
             sent == sendEmail(w2, "Please verify your email", id, unHashedToken)
         IN IF sent.error # ""
            THEN next(sent.w, Error(sent.error))
            ELSE [reply(sent.w, 201, "User registered successfully and verification email has been sent on your email")
                    EXCEPT !.uid = id, !.user = select(sent.w.users[id])]

\* registerUser served without another request in between.
registerUser(w, email, username, password) ==
    IF findByUsernameOrEmail(w, username, email) # {}
    THEN next(w, ApiError(409, "User with email or username already exists"))
    ELSE registerUser_create(w, email, username, password)

\* ------------------------------------------------------------ credentials
\* generateAccessAndRefreshTokens(userId): findById, sign both tokens, store
\* the refresh token with save({ validateBeforeSave: false }).
generateAccessAndRefreshTokens(w, userId) ==
    LET accessToken == userSchema_generateAccessToken(userId, w.now)
        refreshToken == userSchema_generateRefreshToken(userId, w.now)
        user == [w.users[userId] EXCEPT !.refreshToken = refreshToken]
    IN IF ~w.db
       \* a call inside the try block throws: nothing is stored, and the catch
       \* clause throws the ApiError in its place
       THEN [ accessToken |-> noToken,
              refreshToken |-> noToken,
              w |-> w,
              error |-> ApiError(500, "Something went wrong while generating access token") ]
       ELSE [ accessToken |-> accessToken,
              refreshToken |-> refreshToken,
              w |-> [save(w, userId, user) EXCEPT
                       !.issued = @ \cup {[sub |-> userId, iat |-> w.now]}],
              error |-> Error("") ]

\* A verifyJWT that reads the Authorization header first.
credentialOf_headerFirst(cookie, header) == IF ~falsy(header) THEN header ELSE cookie

\* verifyJWT: the credential is the accessToken cookie unless it is absent or
\* empty, else the Authorization header without its "Bearer " prefix.
credentialOf(cookie, header) == IF ~falsy(cookie) THEN cookie ELSE header

\* A middleware that decodes the token without verifying its signature.
verifyJWT_decodeOnly(w, cookie, header) ==
    LET token == credentialOf(cookie, header)
    IN IF falsy(token) \/ w.now >= token.exp \/ token.sub \notin DOMAIN w.users
       THEN 0 ELSE token.sub

\* A middleware that also requires the user to hold a session.
verifyJWT_sessionBound(w, cookie, header) ==
    LET token == credentialOf(cookie, header)
    IN IF falsy(token) THEN 0
       ELSE IF ~jwtVerify(token, "ACCESS_TOKEN_SECRET", w.now) THEN 0
       ELSE IF token.sub \notin DOMAIN w.users THEN 0
       ELSE IF falsy(w.users[token.sub].refreshToken) THEN 0
       ELSE token.sub

\* verifyJWT: the id of req.user, or 0 when the middleware answers 401.
verifyJWT(w, cookie, header) ==
    LET token == credentialOf(cookie, header)
    IN IF falsy(token) THEN 0
       ELSE IF ~jwtVerify(token, "ACCESS_TOKEN_SECRET", w.now) THEN 0
       ELSE IF token.sub \notin DOMAIN w.users THEN 0
       ELSE token.sub

\* The 401 of verifyJWT.
unauthorized(w, cookie, header) ==
    next(w, ApiError(401, IF falsy(credentialOf(cookie, header))
                          THEN "Unauthorized request" ELSE "Invalid access token"))

\* ------------------------------------------------------------------ login
login(w, email, password) ==
    IF email = ""
    THEN next(w, ApiError(400, "Email is required"))
    ELSE IF findByEmail(w, email) = {}
    THEN next(w, ApiError(400, "User does not exist"))
    ELSE LET id == CHOOSE i \in findByEmail(w, email) : TRUE
         IN IF ~userSchema_isPasswordCorrect(w.users[id], password)
            THEN next(w, ApiError(400, "Invalid credentials"))
            ELSE LET t == generateAccessAndRefreshTokens(w, id)
                 IN IF t.error.message # ""
                    THEN next(w, t.error)
                    ELSE
                    [reply(t.w, 200, "User logged in successfully")
                       EXCEPT !.uid = id,
                              !.user = select(t.w.users[id]),
                              !.accessToken = t.accessToken,
                              !.refreshToken = t.refreshToken,
                              !.cookies = "set"]

\* ----------------------------------------------------------------- logout
\* A logout that turns away a user who has no session.
logoutUser_onceOnly(w, cookie, header) ==
    LET id == verifyJWT(w, cookie, header)
    IN IF id = 0
       THEN unauthorized(w, cookie, header)
       ELSE IF w.users[id].refreshToken = emptyString
       THEN [next(w, ApiError(400, "User is not logged in")) EXCEPT !.uid = id]
       ELSE [reply([w EXCEPT !.users[id].refreshToken = emptyString],
                   200, "User logged out")
               EXCEPT !.uid = id, !.cookies = "cleared"]

logoutUser(w, cookie, header) ==
    LET id == verifyJWT(w, cookie, header)
    IN IF id = 0
       THEN unauthorized(w, cookie, header)
       ELSE [reply([w EXCEPT !.users[id].refreshToken = emptyString],
                   200, "User logged out")
               EXCEPT !.uid = id, !.cookies = "cleared"]

\* ----------------------------------------------------------- current user
getCurrentUser(w, cookie, header) ==
    LET id == verifyJWT(w, cookie, header)
    IN IF id = 0
       THEN unauthorized(w, cookie, header)
       ELSE [reply(w, 200, "Current user fetched successfully")
               EXCEPT !.uid = id, !.user = select(w.users[id])]

\* ----------------------------------------------------------- verify email
verifyEmail(w, verificationToken) ==
    LET hashedToken == sha256(verificationToken)
        found == findByToken(w, "emailVerificationToken", "emailVerificationExpiry",
                             hashedToken)
    IN IF found = {}
       THEN next(w, ApiError(400, "Token is invalid or expired"))
       ELSE LET id == CHOOSE i \in found : TRUE
                user == [w.users[id] EXCEPT !.emailVerificationToken = undefined,
                                            !.emailVerificationExpiry = undefined,
                                            !.isEmailVerified = TRUE]
            IN [reply(save(w, id, user), 200, "Email is verified") EXCEPT !.uid = id]

\* ------------------------------------------------ resend email verification
resendEmailVerification(w, cookie, header) ==
    LET id == verifyJWT(w, cookie, header)
    IN IF id = 0
       THEN unauthorized(w, cookie, header)
       ELSE IF w.users[id].isEmailVerified
       THEN [next(w, ApiError(409, "Email is already verified")) EXCEPT !.uid = id]
       ELSE LET tmp == generateTemporaryToken(randomBytes(w), w.now)
                unHashedToken == destructure(tmp, "unHashedToken")
                hashedToken == destructure(tmp, "hashedToken")
                tokenExpiry == destructure(tmp, "tokenExpiry")
                user == [w.users[id] EXCEPT !.emailVerificationToken = hashedToken,
                                            !.emailVerificationExpiry = tokenExpiry]
                w1 == save(w, id, user)
                sent == sendEmail(w1, "Please verify your email", id, unHashedToken)
            IN IF sent.error # ""
               THEN next(sent.w, Error(sent.error))
               ELSE [reply(sent.w, 200, "Mail has been sent to your email ID")
                       EXCEPT !.uid = id]

\* ---------------------------------------------------------- refresh token
\* A refresh that trusts every token with a valid signature.
refreshAccessToken_signatureOnly(w, incomingRefreshToken) ==
    IF \/ falsy(incomingRefreshToken)
       \/ ~jwtVerify(incomingRefreshToken, "REFRESH_TOKEN_SECRET", w.now)
       \/ incomingRefreshToken.sub \notin DOMAIN w.users
    THEN next(w, ApiError(401, "Invalid refresh token"))
    ELSE LET t == generateAccessAndRefreshTokens(w, incomingRefreshToken.sub)
         IN [reply(t.w, 200, "Access token refreshed")
               EXCEPT !.uid = incomingRefreshToken.sub,
                      !.accessToken = t.accessToken,
                      !.refreshToken = t.refreshToken,
                      !.cookies = "set"]

\* A refresh that ends the session when a superseded token is presented.
refreshAccessToken_revokeOnReuse(w, incomingRefreshToken) ==
    IF \/ falsy(incomingRefreshToken)
       \/ ~jwtVerify(incomingRefreshToken, "REFRESH_TOKEN_SECRET", w.now)
       \/ incomingRefreshToken.sub \notin DOMAIN w.users
    THEN next(w, ApiError(401, "Invalid refresh token"))
    ELSE IF incomingRefreshToken # w.users[incomingRefreshToken.sub].refreshToken
    THEN next([w EXCEPT !.users[incomingRefreshToken.sub].refreshToken = emptyString],
              ApiError(401, "Invalid refresh token"))
    ELSE LET t == generateAccessAndRefreshTokens(w, incomingRefreshToken.sub)
         IN [reply(t.w, 200, "Access token refreshed")
               EXCEPT !.uid = incomingRefreshToken.sub,
                      !.accessToken = t.accessToken,
                      !.refreshToken = t.refreshToken,
                      !.cookies = "set"]

\* incomingRefreshToken is req.cookies.refreshToken || req.body.refreshToken.
refreshAccessToken(w, incomingRefreshToken) ==
    IF falsy(incomingRefreshToken)
    THEN next(w, ApiError(401, "Unauthorized access"))
    ELSE IF ~jwtVerify(incomingRefreshToken, "REFRESH_TOKEN_SECRET", w.now)
    THEN next(w, ApiError(401, "Invalid refresh token"))
    ELSE IF incomingRefreshToken.sub \notin DOMAIN w.users
    THEN next(w, ApiError(401, "Invalid refresh token"))
    \* the ApiError(401, "Refresh token is expired") is thrown inside the try
    \* block and replaced by the catch clause
    ELSE IF incomingRefreshToken # w.users[incomingRefreshToken.sub].refreshToken
    THEN next(w, ApiError(401, "Invalid refresh token"))
    ELSE LET id == incomingRefreshToken.sub
             t == generateAccessAndRefreshTokens(w, id)
             \* user.refreshToken = newRefreshToken; user.save() writes the
             \* modified path of the document loaded before the tokens were made
             user == [t.w.users[id] EXCEPT !.refreshToken = t.refreshToken]
         IN IF t.error.message # ""
            \* thrown inside the try block as well
            THEN next(w, ApiError(401, "Invalid refresh token"))
            ELSE
            [reply(save(t.w, id, user), 200, "Access token refreshed")
               EXCEPT !.uid = id,
                      !.accessToken = t.accessToken,
                      !.refreshToken = t.refreshToken,
                      !.cookies = "set"]

\* -------------------------------------------------------- forgot password
forgotPasswordRequest(w, email) ==
    IF findByEmail(w, email) = {}
    THEN next(w, ApiError(404, "User does not exist"))
    ELSE LET id == CHOOSE i \in findByEmail(w, email) : TRUE
             tmp == generateTemporaryToken(randomBytes(w), w.now)
             unHashedToken == destructure(tmp, "unHashedToken")
             hashedToken == destructure(tmp, "hashedToken")
             tokenExpiry == destructure(tmp, "tokenExpiry")
             user == [w.users[id] EXCEPT !.forgotPasswordToken = hashedToken,
                                         !.forgotPasswordExpiry = tokenExpiry]
             w1 == save(w, id, user)
             sent == sendEmail(w1, "Password reset request", id, unHashedToken)
         IN IF sent.error # ""
            THEN next(sent.w, Error(sent.error))
            ELSE [reply(sent.w, 200, "Password reset mail has been sent on your mail id")
                    EXCEPT !.uid = id]

\* --------------------------------------------------------- reset password
resetForgotPassword(w, resetToken, newPassword) ==
    LET hashedToken == sha256(resetToken)
        found == findByToken(w, "forgotPasswordToken", "forgotPasswordExpiry",
                             hashedToken)
    IN IF found = {}
       THEN next(w, ApiError(489, "Token is invalid or expired"))
       ELSE LET id == CHOOSE i \in found : TRUE
                user == [w.users[id] EXCEPT !.forgotPasswordExpiry = undefined,
                                            !.forgotPasswordToken = undefined,
                                            !.password = text(newPassword)]
            IN [reply(save(w, id, user), 200, "Password reset successfully")
                  EXCEPT !.uid = id]

\* -------------------------------------------------------- change password
\* A change of password that ends the user's session.
changeCurrentPassword_revokes(w, cookie, header, oldPassword, newPassword) ==
    LET id == verifyJWT(w, cookie, header)
    IN IF id = 0
       THEN unauthorized(w, cookie, header)
       ELSE IF ~userSchema_isPasswordCorrect(w.users[id], oldPassword)
       THEN [next(w, ApiError(400, "Invalid old Password")) EXCEPT !.uid = id]
       ELSE LET user == [w.users[id] EXCEPT !.password = text(newPassword),
                                            !.refreshToken = emptyString]
            IN [reply(save(w, id, user), 200, "Password changed successfully")
                  EXCEPT !.uid = id]

changeCurrentPassword(w, cookie, header, oldPassword, newPassword) ==
    LET id == verifyJWT(w, cookie, header)
    IN IF id = 0
       THEN unauthorized(w, cookie, header)
       ELSE IF ~userSchema_isPasswordCorrect(w.users[id], oldPassword)
       THEN [next(w, ApiError(400, "Invalid old Password")) EXCEPT !.uid = id]
       ELSE LET user == [w.users[id] EXCEPT !.password = text(newPassword)]
            IN [reply(save(w, id, user), 200, "Password changed successfully")
                  EXCEPT !.uid = id]

\* ---------------------------------------------------------------- clients
\* What a client can put in a cookie, a header or a body: nothing, a token it
\* signed itself, or a token the server issued (of either kind).
accessTokenOf(i) == userSchema_generateAccessToken(i.sub, i.iat)
refreshTokenOf(i) == userSchema_generateRefreshToken(i.sub, i.iat)
Credentials(w) ==
    {noToken, forgedToken} \cup {accessTokenOf(i) : i \in w.issued}
                           \cup {refreshTokenOf(i) : i \in w.issued}

\* The plain tokens a client can put in a URL: those of the links sendEmail
\* was called with, and a guess (0) that was never generated.
PlainTokens(w) == {m.unHashedToken : m \in w.mails} \cup {0}

\* ------------------------------------------------------------ the system
Init ==
    /\ users = <<>>
    /\ issued = {}
    /\ mails = {}
    /\ now = 0
    /\ members = {}
    /\ registering = {}
    /\ refreshing = <<>>
    /\ loggedOut = {}

\* The world a request leaves becomes the current one; the run sends at most
\* MaxMails mails.
Serve(r) ==
    /\ Cardinality(r.w.mails) <= MaxMails
    /\ users' = r.w.users
    /\ issued' = r.w.issued
    /\ mails' = r.w.mails
    /\ now' = r.w.now
    /\ UNCHANGED <<members, registering, refreshing, loggedOut>>

Tick ==
    /\ now < MaxTime
    /\ now' = now + 1
    /\ UNCHANGED <<users, issued, mails, members, registering, refreshing, loggedOut>>

Register ==
    \E e \in Emails, u \in Usernames, p \in Passwords :
        \E up \in BOOLEAN :
            LET r == registerUser([World EXCEPT !.smtp = up], e, u, p) IN Serve(r)

\* The login validator lets a body without email through ("").
Login ==
    \E e \in Emails \cup {""}, p \in Passwords :
        \E up \in BOOLEAN :
            LET r == login([World EXCEPT !.db = up], e, p) IN Serve(r)

\* A request carries its access token in the cookie or in the header.
Carried(w) ==
    {<<c, noToken>> : c \in Credentials(w)} \cup {<<noToken, h>> : h \in Credentials(w)}

Logout == \E c \in Carried(World) : Serve(logoutUser(World, c[1], c[2]))

CurrentUser == \E c \in Carried(World) : Serve(getCurrentUser(World, c[1], c[2]))

VerifyEmail == \E t \in PlainTokens(World) : Serve(verifyEmail(World, t))

ResendEmailVerification ==
    \E c \in Carried(World), up \in BOOLEAN :
        Serve(resendEmailVerification([World EXCEPT !.smtp = up], c[1], c[2]))

RefreshAccessToken ==
    \E t \in Credentials(World), up \in BOOLEAN :
        Serve(refreshAccessToken([World EXCEPT !.db = up], t))

ForgotPasswordRequest ==
    \E e \in Emails :
        \E up \in BOOLEAN :
            LET r == forgotPasswordRequest([World EXCEPT !.smtp = up], e) IN Serve(r)

ResetForgotPassword ==
    \E t \in PlainTokens(World), p \in Passwords : Serve(resetForgotPassword(World, t, p))

\* The body of a request that verifyJWT turns away is never read.
ChangeCurrentPassword ==
    \E c \in Carried(World) :
        IF verifyJWT(World, c[1], c[2]) = 0
        THEN Serve(changeCurrentPassword(World, c[1], c[2], "", ""))
        ELSE \E o \in Passwords, n \in Passwords :
                Serve(changeCurrentPassword(World, c[1], c[2], o, n))

Next ==
    \/ Tick
    \/ Register
    \/ Login
    \/ Logout
    \/ CurrentUser
    \/ VerifyEmail
    \/ ResendEmailVerification
    \/ RefreshAccessToken
    \/ ForgotPasswordRequest
    \/ ResetForgotPassword
    \/ ChangeCurrentPassword

Spec == Init /\ [][Next]_vars

\* ---------------------------------------------------------- authorization
\* UserRolesEnum / AvailableUserRole
AvailableUserRole == {"admin", "project_admin", "member"}

\* req.params.projectId: absent (""), the ids of two projects, and a string
\* that is not the 24 hex characters of an ObjectId.
Projects == {"p1", "p2"}
ProjectIds == Projects \cup {"", "not-an-id"}

\* new mongoose.Types.ObjectId(s) returns for the text of an ObjectId and
\* throws a BSONError for any other string.
isObjectId(s) == s \in Projects

\* The documents of the ProjectMember collection for the principals 1 and 2,
\* and the collections they form: one membership per (user, project).
MemberDocs == [user : {1, 2}, project : Projects, role : AvailableUserRole]
ProjectMemberCollections ==
    {c \in SUBSET MemberDocs :
        \A a \in c, b \in c : (a.user = b.user /\ a.project = b.project) => a = b}

\* ProjectMember.findOne({ project, user })
findMember(c, projectId, userId) ==
    {d \in c : d.project = projectId /\ d.user = userId}

\* The outcome of a middleware: next() was called or an error was forwarded
\* (status 0: none), and the role attached to req.user ("": none).
guard(called, status, message, role) ==
    [next |-> called, status |-> status, message |-> message, role |-> role]

\* validateProjectPermission(roles) for the principal req.user._id.  An error
\* that is not an ApiError reaches the client as a 500.
validateProjectPermission(c, roles, projectId, userId) ==
    IF projectId = ""
    THEN guard(FALSE, 400, "project id is missing", "")
    ELSE IF ~isObjectId(projectId)
    THEN guard(FALSE, 500, "BSONError", "")
    ELSE IF findMember(c, projectId, userId) = {}
    THEN guard(FALSE, 400, "project not found", "")
    ELSE LET project == CHOOSE d \in findMember(c, projectId, userId) : TRUE
             givenRole == project.role
         IN IF givenRole \notin roles
            THEN guard(FALSE, 403,
                       "You do not have permission to perform this action", givenRole)
            ELSE guard(TRUE, 0, "", givenRole)

\* A store with two registered users and any ProjectMember collection.
twoUsers ==
    registerUser(registerUser([users |-> <<>>, issued |-> {}, mails |-> {}, now |-> 0, smtp |-> TRUE, db |-> TRUE],
                              "a@x", "alice", "pw1").w,
                 "b@x", "bob", "pw2").w

InitAuthorize ==
    /\ users = twoUsers.users
    /\ issued = twoUsers.issued
    /\ mails = twoUsers.mails
    /\ now = 0
    /\ members \in ProjectMemberCollections
    /\ registering = {}
    /\ refreshing = <<>>
    /\ loggedOut = {}

\* The capability check reads the collection and writes nothing.
Authorize ==
    \E roles \in SUBSET AvailableUserRole, projectId \in ProjectIds, u \in DOMAIN users :
        /\ validateProjectPermission(members, roles, projectId, u).status \in {0, 400, 403, 500}
        /\ UNCHANGED vars

NextAuthorize == Authorize

SpecAuthorize == InitAuthorize /\ [][NextAuthorize]_vars

\* -------------------------------------------- concurrent registrations
\* Register requests served concurrently: each await of a handler is a point
\* where another request can run.  A request is in flight between the answer
\* of its findOne and its User.create.
MaxRegistering == 2

\* findOne is answered; a request that finds an existing user ends with 409.
RegisterFindOne ==
    \E e \in Emails, u \in Usernames, p \in Passwords :
        /\ Cardinality(registering) < MaxRegistering
        /\ registering' =
              IF findByUsernameOrEmail(World, u, e) = {}
              THEN registering \cup {[email |-> e, username |-> u, password |-> p]}
              ELSE registering
        /\ UNCHANGED <<users, issued, mails, now, members, refreshing, loggedOut>>

\* User.create and the rest of the handler, in the store as it is now.
RegisterCreate ==
    \E q \in registering, up \in BOOLEAN :
        LET r == registerUser_create([World EXCEPT !.smtp = up],
                                     q.email, q.username, q.password)
        IN /\ Cardinality(r.w.mails) <= MaxMails
           /\ users' = r.w.users
           /\ mails' = r.w.mails
           /\ registering' = registering \ {q}
           /\ UNCHANGED <<issued, now, members, refreshing, loggedOut>>

NextRegister == RegisterFindOne \/ RegisterCreate

SpecRegister == Init /\ [][NextRegister]_vars

\* ------------------------------------------------ concurrent refreshes
\* RefreshAccessToken requests served concurrently.  A request awaits three
\* times: User.findById of the handler, generateAccessAndRefreshTokens, and
\* the user.save() of the handler; between two of them another request runs.
MaxRefreshing == 2

\* Two users, both logged in at second 0.
loggedIn == login(login(twoUsers, "a@x", "pw1").w, "b@x", "pw2").w

InitRefresh ==
    /\ users = loggedIn.users
    /\ issued = loggedIn.issued
    /\ mails = loggedIn.mails
    /\ now = 0
    /\ members = {}
    /\ registering = {}
    /\ refreshing = <<>>
    /\ loggedOut = {}

\* The number of store writes of the requests so far.
writes == IF refreshing = <<>> THEN 0
          ELSE CHOOSE n \in {q.wrote : q \in {refreshing[k] : k \in DOMAIN refreshing}} :
                  \A k \in DOMAIN refreshing : refreshing[k].wrote <= n

\* jwt.verify, User.findById and the comparison with the stored token: a
\* request that fails one of them ends with 401; the others hold the document
\* they loaded, whose refreshToken is the token they presented.
RefreshFindById ==
    \E T \in Credentials(World) :
        /\ Len(refreshing) < MaxRefreshing
        /\ refreshing' =
              IF /\ ~falsy(T)
                 /\ jwtVerify(T, "REFRESH_TOKEN_SECRET", now)
                 /\ T.sub \in DOMAIN users
                 /\ T = users[T.sub].refreshToken
              THEN Append(refreshing, [incomingRefreshToken |-> T, at |-> "generate",
                                       newRefreshToken |-> noToken, wrote |-> 0])
              ELSE refreshing
        /\ UNCHANGED <<users, issued, mails, now, members, registering, loggedOut>>

\* generateAccessAndRefreshTokens: the user is loaded again, the tokens are
\* signed and the refresh token is saved; save() writes the path when its
\* value differs from the one loaded.
RefreshGenerate ==
    \E k \in DOMAIN refreshing :
        LET q == refreshing[k]
            t == generateAccessAndRefreshTokens(World, q.incomingRefreshToken.sub)
        IN /\ q.at = "generate"
           /\ users' = t.w.users
           /\ issued' = t.w.issued
           /\ refreshing' =
                 [refreshing EXCEPT ![k].at = "save",
                                    ![k].newRefreshToken = t.refreshToken,
                                    ![k].wrote = IF t.w.users # users THEN writes + 1 ELSE @]
           /\ UNCHANGED <<mails, now, members, registering, loggedOut>>

\* user.refreshToken = newRefreshToken; user.save() on the document the
\* handler loaded: the path is written when the new token differs from the
\* token of that document, which is the token that was presented.
RefreshSave ==
    \E k \in DOMAIN refreshing :
        LET q == refreshing[k]
            modified == q.newRefreshToken # q.incomingRefreshToken
        IN /\ q.at = "save"
           /\ users' = IF modified
                       THEN [users EXCEPT ![q.incomingRefreshToken.sub].refreshToken =
                                              q.newRefreshToken]
                       ELSE users
           /\ refreshing' =
                 [refreshing EXCEPT ![k].at = "done",
                                    ![k].wrote = IF modified THEN writes + 1 ELSE @]
           /\ UNCHANGED <<issued, mails, now, members, registering, loggedOut>>

NextRefresh == Tick \/ RefreshFindById \/ RefreshGenerate \/ RefreshSave

SpecRefresh == InitRefresh /\ [][NextRefresh]_vars

\* --------------------------------------- a logout among the refreshes
\* A Logout served while RefreshAccessToken requests are in flight: verifyJWT
\* and then findByIdAndUpdate with $set refreshToken "".
RefreshLogout ==
    \E c \in Carried(World) :
        LET r == logoutUser(World, c[1], c[2])
        IN /\ r.status = 200
           /\ users' = r.w.users
           /\ loggedOut' = loggedOut \cup {r.uid}
           /\ UNCHANGED <<issued, mails, now, members, registering, refreshing>>

NextRefreshLogout == NextRefresh \/ RefreshLogout

SpecRefreshLogout == InitRefresh /\ [][NextRefreshLogout]_vars

\* ================================================================ claims
\* The plaintext behind the stored password hash of user i.
currentPassword(w, i) == w.users[i].password[2]

\* The most recent mail with this subject handed over for user i, if any
\* (plain tokens are numbered in the order they were generated).
latestMail(w, i, subject) ==
    {m \in w.mails : /\ m.to = i /\ m.subject = subject
                     /\ \A o \in w.mails :
                           (o.to = i /\ o.subject = subject)
                              => o.unHashedToken <= m.unHashedToken}

\* C1: once RefreshAccessToken has succeeded with refresh token T, a later
\* RefreshAccessToken with the same T fails with 401, however little time
\* has passed (here: the very next request).
C1_RotatedTokenIsRejected ==
    \A T \in Credentials(World) :
        LET r == refreshAccessToken(World, T)
        IN r.status = 200 => refreshAccessToken(r.w, T).status = 401

\* C2: at most one issued refresh token per user is accepted by
\* RefreshAccessToken, and after a second successful Login of a user the
\* refresh token returned by the first Login is rejected.
C2_OneActiveRefreshToken ==
    /\ \A i \in DOMAIN users :
          Cardinality({T \in Credentials(World) :
                          T.sub = i /\ refreshAccessToken(World, T).status = 200}) <= 1
    /\ \A e \in Emails, p \in Passwords :
          LET first == login(World, e, p)
              second == login(first.w, e, p)
          IN (first.status = 200 /\ second.status = 200)
                => refreshAccessToken(second.w, first.refreshToken).status = 401

\* Every mail with this subject handed over for user i.
mailsTo(w, i, subject) == {m \in w.mails : m.to = i /\ m.subject = subject}

\* C3: after Register succeeds, VerifyEmail with the plain token of the
\* verification mail, before the expiry, succeeds and sets isEmailVerified.
\* (A user with a single verification mail: the one Register sent.)
C3_VerifyAfterRegister ==
    \A i \in DOMAIN users :
        \A m \in mailsTo(World, i, "Please verify your email") :
            ( /\ Cardinality(mailsTo(World, i, "Please verify your email")) = 1
              /\ users[i].emailVerificationExpiry # undefined
              /\ now < users[i].emailVerificationExpiry[1] )
            => LET v == verifyEmail(World, m.unHashedToken)
               IN v.status = 200 /\ v.w.users[i].isEmailVerified

\* C4: in every stored user, emailVerificationToken and
\* emailVerificationExpiry are both set or both unset, and so are
\* forgotPasswordToken and forgotPasswordExpiry.
C4_TokenAndExpiryPaired ==
    \A i \in DOMAIN users :
        /\ (users[i].emailVerificationToken = undefined)
              <=> (users[i].emailVerificationExpiry = undefined)
        /\ (users[i].forgotPasswordToken = undefined)
              <=> (users[i].forgotPasswordExpiry = undefined)

\* C5: after ForgotPasswordRequest succeeds, ResetForgotPassword with the
\* mailed plain token and a newPassword, before expiry, succeeds, clears both
\* reset fields, and Login then succeeds with newPassword and fails with the
\* previous password.
C5_ResetAfterForgot ==
    \A i \in DOMAIN users, n \in Passwords :
        \A m \in latestMail(World, i, "Password reset request") :
            ( /\ users[i].forgotPasswordExpiry # undefined
              /\ now < users[i].forgotPasswordExpiry[1] )
            => LET v == resetForgotPassword(World, m.unHashedToken, n)
               IN /\ v.status = 200
                  /\ v.w.users[i].forgotPasswordToken = undefined
                  /\ v.w.users[i].forgotPasswordExpiry = undefined
                  /\ login(v.w, users[i].email, n).status = 200
                  /\ n # currentPassword(World, i)
                        => login(v.w, users[i].email, currentPassword(World, i)).status # 200

C8_DuplicateRegisterConflicts ==
    \A e \in Emails, u \in Usernames, p \in Passwords :
        (\E i \in DOMAIN users :
            users[i].email = toLowerCase(e) \/ users[i].username = u)
        => LET r == registerUser(World, e, u, p)
           IN r.status = 409 /\ r.w = World

\* A user exists and a Register that matches it on exactly one of email and
\* username is turned away.
C8_Witness ==
    \E e \in Emails, u \in Usernames, p \in Passwords, i \in DOMAIN users :
        /\ (users[i].email = toLowerCase(e)) # (users[i].username = u)
        /\ \A j \in DOMAIN users :
              users[j].email # toLowerCase(e) \/ users[j].username # u
        /\ registerUser(World, e, u, p).status = 409

\* C9: a Login with an existing email and a wrong password fails, issues no
\* token, sets no cookie and leaves every stored field unchanged.
C9_WrongPasswordLoginChangesNothing ==
    \A e \in Emails, p \in Passwords :
        \A i \in findByEmail(World, e) :
            p # currentPassword(World, i)
            => LET r == login(World, e, p)
               IN /\ r.status >= 400
                  /\ r.accessToken = noToken
                  /\ r.refreshToken = noToken
                  /\ r.cookies = "none"
                  /\ r.w = World

\* A logged-in user (a refresh token is stored) and a Login for it with a
\* wrong password.
C9_Witness ==
    \E e \in Emails, p \in Passwords :
        \E i \in findByEmail(World, e) :
            /\ p # currentPassword(World, i)
            /\ users[i].refreshToken.secret = "REFRESH_TOKEN_SECRET"
            /\ login(World, e, p).status = 400

\* C10: after ChangeCurrentPassword succeeds with the correct oldPassword and
\* a different newPassword, a Login with newPassword succeeds and a Login
\* with oldPassword fails.
C10_LoginFollowsChangedPassword ==
    \A c \in Carried(World), o \in Passwords, n \in Passwords :
        LET r == changeCurrentPassword(World, c[1], c[2], o, n)
        IN (r.status = 200 /\ n # o)
           => \A e \in Emails :
                 findByEmail(r.w, e) = {r.uid}
                 => /\ login(r.w, e, n).status = 200
                    /\ login(r.w, e, o).status # 200

\* An authenticated user changes pw to a different one and can log in with it.
C10_Witness ==
    \E c \in Carried(World), o \in Passwords, n \in Passwords :
        LET r == changeCurrentPassword(World, c[1], c[2], o, n)
        IN /\ r.status = 200
           /\ n # o
           /\ \E e \in Emails : /\ findByEmail(r.w, e) = {r.uid}
                                /\ login(r.w, e, n).status = 200
protectedResults(w, c) ==
    {logoutUser(w, c[1], c[2]), getCurrentUser(w, c[1], c[2]),
     resendEmailVerification(w, c[1], c[2])}
      \cup {changeCurrentPassword(w, c[1], c[2], o, n) : o \in Passwords, n \in Passwords}

\* The credential is present, signed with the access secret, unexpired, and
\* its subject is a stored user.
authentic(w, token) ==
    /\ token # noToken
    /\ token.secret = "ACCESS_TOKEN_SECRET"
    /\ w.now < token.exp
    /\ token.sub \in DOMAIN w.users

\* C12: on the protected routes a request without an authentic credential
\* gets 401 and the handler has no effect; with an authentic credential the
\* handler runs for exactly the user that is the token's subject.
C12_ProtectedRoutesRequireAuthentication ==
    \A c \in Carried(World) :
        \A r \in protectedResults(World, c) :
            IF authentic(World, credentialOf(c[1], c[2]))
            THEN r.status # 401 /\ r.uid = credentialOf(c[1], c[2]).sub
            ELSE r.status = 401 /\ r.uid = 0 /\ r.w = World /\ r.cookies = "none"

\* A state where an issued access token is let through, and a forged token
\* for an existing user and a refresh token used as credential are not.
C12_Witness ==
    /\ \E i \in issued :
          /\ getCurrentUser(World, accessTokenOf(i), noToken).status = 200
          /\ logoutUser(World, noToken, refreshTokenOf(i)).status = 401
    /\ forgedToken.sub \in DOMAIN users
    /\ logoutUser(World, forgedToken, noToken).status = 401
    /\ getCurrentUser(World, noToken, noToken).status = 401

\* C13: an access token issued by Login or RefreshAccessToken is accepted by
\* verifyJWT right after it was issued and while the clock is before its
\* expiry, and is rejected with 401 once the expiry has elapsed.
C13_AccessTokenValidUntilExpiry ==
    /\ \A e \in Emails, p \in Passwords :
          LET r == login(World, e, p)
          IN r.status = 200 =>
                /\ getCurrentUser(r.w, r.accessToken, noToken).status = 200
                /\ getCurrentUser(r.w, r.accessToken, noToken).uid = r.uid
    /\ \A T \in Credentials(World) :
          LET r == refreshAccessToken(World, T)
          IN r.status = 200 =>
                /\ getCurrentUser(r.w, noToken, r.accessToken).status = 200
                /\ getCurrentUser(r.w, noToken, r.accessToken).uid = r.uid
    /\ \A i \in issued :
          LET r == getCurrentUser(World, accessTokenOf(i), noToken)
          IN IF now < i.iat + AccessTokenExpiry
             THEN r.status = 200 /\ r.uid = i.sub
             ELSE r.status = 401

\* One issued access token has expired and is rejected while a later one is
\* accepted, and a refresh succeeds.
C13_Witness ==
    /\ \E i \in issued :
          /\ now >= i.iat + AccessTokenExpiry
          /\ getCurrentUser(World, accessTokenOf(i), noToken).status = 401
    /\ \E i \in issued :
          /\ now < i.iat + AccessTokenExpiry
          /\ getCurrentUser(World, accessTokenOf(i), noToken).status = 200
    /\ \E T \in Credentials(World) : refreshAccessToken(World, T).status = 200
outage(w) == [w EXCEPT !.smtp = FALSE]

\* Two results with the same response that leave the same store.
sameOutcome(a, b) ==
    /\ a.status = b.status
    /\ a.message = b.message
    /\ a.uid = b.uid
    /\ a.w.users = b.w.users

\* C16: in Register, ResendEmailVerification and ForgotPasswordRequest a
\* failure of the mail transport is swallowed: the response and the stored
\* users are those of the same request with a working transport.
C16_MailFailureIsSwallowed ==
    /\ \A e \in Emails, u \in Usernames, p \in Passwords :
          sameOutcome(registerUser(outage(World), e, u, p), registerUser(World, e, u, p))
    /\ \A c \in Carried(World) :
          sameOutcome(resendEmailVerification(outage(World), c[1], c[2]),
                      resendEmailVerification(World, c[1], c[2]))
    /\ \A e \in Emails :
          sameOutcome(forgotPasswordRequest(outage(World), e),
                      forgotPasswordRequest(World, e))

\* Each of the three requests succeeds while the SMTP server is down.
C16_Witness ==
    /\ \E e \in Emails, u \in Usernames, p \in Passwords :
          registerUser(outage(World), e, u, p).status = 201
    /\ \E c \in Carried(World) :
          resendEmailVerification(outage(World), c[1], c[2]).status = 200
    /\ \E e \in Emails : forgotPasswordRequest(outage(World), e).status = 200
\* The results of every request a client can send in the current state.
allResults(w) ==
    UNION { {r \in protectedResults(w, c) : TRUE} : c \in Carried(w) }
      \cup {registerUser(w, e, u, p) : e \in Emails, u \in Usernames, p \in Passwords}
      \cup {login(w, e, p) : e \in Emails \cup {""}, p \in Passwords}
      \cup {verifyEmail(w, t) : t \in PlainTokens(w)}
      \cup {refreshAccessToken(w, T) : T \in Credentials(w)}
      \cup {forgotPasswordRequest(w, e) : e \in Emails}
      \cup {resetForgotPassword(w, t, p) : t \in PlainTokens(w), p \in Passwords}

\* C17: every error raised in a handler or middleware is answered with the
\* standard error envelope {statusCode, data, message, success, errors} (the
\* JSON of the API), carrying the error's status code.
C17_ErrorsAnsweredWithEnvelope ==
    \A r \in allResults(World) : r.status >= 400 => r.body = "ApiResponse"
\* C19: the user object in the responses of Register, Login and CurrentUser
\* (the principal verifyJWT attached) never has a secret field: the password
\* hash, the refresh token, or a token or expiry of email verification or of
\* password reset.
C19_ReturnedUserHasNoSecrets ==
    \A r \in allResults(World) :
        DOMAIN r.user \cap {"password", "refreshToken",
                            "emailVerificationToken", "emailVerificationExpiry",
                            "forgotPasswordToken", "forgotPasswordExpiry"} = {}
\* C18: no two distinct stored users have the same email, and no two have the
\* same username, whatever the order and interleaving of Register requests.
C18_EmailAndUsernameUnique ==
    \A i \in DOMAIN users, j \in DOMAIN users :
        (users[i].email = users[j].email \/ users[i].username = users[j].username)
           => i = j

\* Two users are stored and a third registration, which passed its findOne
\* before the user it conflicts with was created, is still in flight.
C18_Witness ==
    /\ Len(users) = 2
    /\ \E q \in registering :
          /\ findByUsernameOrEmail(World, q.username, q.email) # {}
          /\ registerUser_create(World, q.email, q.username, q.password).status = 500
\* C20: Login answers an absent email with 400, an email that matches no
\* user with 404, and a failed password check with 401.
C20_LoginErrorStatuses ==
    \A e \in Emails \cup {""}, p \in Passwords :
        LET r == login(World, e, p)
        IN /\ e = "" => r.status = 400
           /\ (e # "" /\ findByEmail(World, e) = {}) => r.status = 404
           /\ \A i \in findByEmail(World, e) :
                 p # currentPassword(World, i) => r.status = 401
\* The mails a request handed to the transport.
newMails(w, r) == r.w.mails \ w.mails

\* C21: after Register, ResendEmailVerification or ForgotPasswordRequest
\* succeeds, the persisted token field (emailVerificationToken, respectively
\* forgotPasswordToken) is the SHA-256 digest of the plain token of the mailed
\* URL, the persisted expiry is the issuance time plus the 20 minute window,
\* and the plain token is in no field of the user: the token field holds the
\* digest and the issuance wrote no other field than these two.
C21_issued(w, r, before, tokenField, expiryField) ==
    \A m \in newMails(w, r) :
        LET doc == r.w.users[r.uid]
        IN /\ doc[tokenField] = sha256(m.unHashedToken)
           /\ doc[expiryField] = <<w.now + TemporaryTokenWindow>>
           /\ \A f \in {"emailVerificationToken", "emailVerificationExpiry",
                        "forgotPasswordToken", "forgotPasswordExpiry"}
                         \ {tokenField, expiryField} : doc[f] = before[f]
C21_HashStoredPlainTokenMailed ==
    /\ \A e \in Emails, u \in Usernames, p \in Passwords :
          LET r == registerUser(World, e, u, p)
          IN r.status = 201
             => C21_issued(World, r, newUser(e, u, p),
                           "emailVerificationToken", "emailVerificationExpiry")
    /\ \A c \in Carried(World) :
          LET r == resendEmailVerification(World, c[1], c[2])
          IN r.status = 200
             => C21_issued(World, r, users[r.uid],
                           "emailVerificationToken", "emailVerificationExpiry")
    /\ \A e \in Emails :
          LET r == forgotPasswordRequest(World, e)
          IN r.status = 200
             => C21_issued(World, r, users[r.uid],
                           "forgotPasswordToken", "forgotPasswordExpiry")

\* C22: after ResendEmailVerification succeeds for an unverified user,
\* VerifyEmail rejects the plain token of every earlier mail to that user and
\* accepts the plain token of the mail just sent (before its expiry).
C22_OnlyLatestVerificationTokenAccepted ==
    \A c \in Carried(World) :
        LET r == resendEmailVerification(World, c[1], c[2])
        IN r.status = 200
           => /\ \A m \in mails :
                    (m.to = r.uid /\ m.subject = "Please verify your email")
                       => verifyEmail(r.w, m.unHashedToken).status # 200
              /\ \A m \in newMails(World, r) :
                    LET v == verifyEmail(r.w, m.unHashedToken)
                    IN /\ v.status = 200
                       /\ v.w.users[r.uid].isEmailVerified

\* The results of the requests that do not set the password.
passwordKept(w) ==
    {login(w, e, p) : e \in Emails, p \in Passwords}
      \cup {refreshAccessToken(w, T) : T \in Credentials(w)}
      \cup UNION { {logoutUser(w, c[1], c[2]), resendEmailVerification(w, c[1], c[2])}
                     : c \in Carried(w) }
      \cup {verifyEmail(w, t) : t \in PlainTokens(w)}
      \cup {forgotPasswordRequest(w, e) : e \in Emails}

\* C23: a save recomputes the stored password hash iff the password field
\* was changed. Register stores the hash of its password once (its second
\* save does not hash again); Login, RefreshAccessToken, Logout, VerifyEmail,
\* ResendEmailVerification and ForgotPasswordRequest leave every stored hash
\* as it is, and a Login with the current password succeeds after each of
\* them; ChangeCurrentPassword stores the hash of the new password.
C23_HashRecomputedIffPasswordChanged ==
    /\ \A e \in Emails, u \in Usernames, p \in Passwords :
          LET r == registerUser(World, e, u, p)
          IN r.status = 201
             => /\ r.w.users[r.uid].password = bcryptHash(text(p))
                /\ login(r.w, e, p).status = 200
    /\ \A r \in passwordKept(World) :
          \A i \in DOMAIN users :
              /\ r.w.users[i].password = users[i].password
              /\ login(r.w, users[i].email, currentPassword(World, i)).status = 200
    /\ \A c \in Carried(World), o \in Passwords, n \in Passwords :
          LET r == changeCurrentPassword(World, c[1], c[2], o, n)
          IN r.status = 200
             => r.w.users[r.uid].password = bcryptHash(text(n))

\* A user to whom a password reset mail was sent after a login stored a
\* refresh token, and for whom a refresh, a logout and a resend succeed.
C23_Witness ==
    \E i \in DOMAIN users :
        /\ \E m \in mails : m.to = i /\ m.subject = "Password reset request"
        /\ users[i].refreshToken # noToken
        /\ refreshAccessToken(World, users[i].refreshToken).status = 200
        /\ \E c \in Carried(World) :
              /\ logoutUser(World, c[1], c[2]).uid = i
              /\ logoutUser(World, c[1], c[2]).status = 200
              /\ resendEmailVerification(World, c[1], c[2]).status = 200
        /\ login(World, users[i].email, currentPassword(World, i)).status = 200

\* C24: in every persisted user the password field holds the one-way hash of
\* the user's current password, never a plaintext: Register,
\* ResetForgotPassword and ChangeCurrentPassword store their password hashed
\* exactly once.
C24_PasswordStoredHashedOnce ==
    /\ \A i \in DOMAIN users :
          /\ users[i].password = bcryptHash(text(currentPassword(World, i)))
          /\ users[i].password \notin {text(p) : p \in Passwords}
    /\ \A e \in Emails, u \in Usernames, p \in Passwords :
          LET r == registerUser(World, e, u, p)
          IN r.status = 201 => r.w.users[r.uid].password = bcryptHash(text(p))
    /\ \A t \in PlainTokens(World), n \in Passwords :
          LET r == resetForgotPassword(World, t, n)
          IN r.status = 200
             => \A i \in DOMAIN users :
                   r.w.users[i].password \in {users[i].password, bcryptHash(text(n))}
    /\ \A c \in Carried(World), o \in Passwords, n \in Passwords :
          LET r == changeCurrentPassword(World, c[1], c[2], o, n)
          IN r.status = 200
             => /\ r.w.users[r.uid].password = bcryptHash(text(n))
                /\ r.w.users[r.uid].password # text(n)

\* Two stored users, one of them logged in, whose change of password to a
\* different one is stored hashed.
C24_Witness ==
    /\ Len(users) = 2
    /\ \E c \in Carried(World), o \in Passwords, n \in Passwords :
          LET r == changeCurrentPassword(World, c[1], c[2], o, n)
          IN /\ r.status = 200
             /\ n # o
             /\ r.w.users[r.uid].password = bcryptHash(text(n))

\* C25: a RefreshAccessToken presenting a correctly signed, unexpired refresh
\* token that differs from the token stored on its user fails with 401 and
\* the message "Refresh token is expired", not with the message
\* "Invalid refresh token" of a signature or expiry failure.
C25_SupersededTokenSaysExpired ==
    \A T \in Credentials(World) :
        ( /\ T # noToken
          /\ jwtVerify(T, "REFRESH_TOKEN_SECRET", now)
          /\ T.sub \in DOMAIN users
          /\ T # users[T.sub].refreshToken )
        => LET r == refreshAccessToken(World, T)
           IN /\ r.status = 401
              /\ r.message = "Refresh token is expired"

\* The store fails the calls of generateAccessAndRefreshTokens.
storeDown(w) == [w EXCEPT !.db = FALSE]

\* C26: when token generation or its persistence fails inside
\* generateAccessAndRefreshTokens, the enclosing Login or RefreshAccessToken
\* fails with status 500.
C26_TokenGenerationFailureIs500 ==
    /\ \A e \in Emails, p \in Passwords :
          login(World, e, p).status = 200
             => /\ login(storeDown(World), e, p).status = 500
                /\ login(storeDown(World), e, p).w.users = users
    /\ \A T \in Credentials(World) :
          refreshAccessToken(World, T).status = 200
             => /\ refreshAccessToken(storeDown(World), T).status = 500
                /\ refreshAccessToken(storeDown(World), T).w.users = users

\* C27: Authenticate takes the credential from the accessToken cookie
\* whenever the cookie is non-empty and from the Authorization header only
\* otherwise: an invalid cookie with a valid header token is answered 401,
\* and a valid cookie with an invalid header token succeeds.
C27_CookieBeforeHeader ==
    \A cookie \in Credentials(World) \cup {emptyString}, header \in Credentials(World) :
        LET r == getCurrentUser(World, cookie, header)
        IN /\ r = getCurrentUser(World, credentialOf(cookie, header), noToken)
           /\ credentialOf(cookie, header) = IF cookie \in {noToken, emptyString}
                                             THEN header ELSE cookie
           /\ (cookie \notin {noToken, emptyString} /\ ~authentic(World, cookie))
                 => r.status = 401
           /\ authentic(World, cookie) => r.status = 200 /\ r.uid = cookie.sub

\* Two users hold access tokens: a request with the cookie of one and the
\* header of the other is served for the cookie's user, a request with a
\* forged cookie and a valid header is turned away, and one with an empty
\* cookie is served for the header's user.
C27_Witness ==
    \E cookie \in Credentials(World), header \in Credentials(World) :
        /\ authentic(World, cookie)
        /\ authentic(World, header)
        /\ cookie.sub # header.sub
        /\ getCurrentUser(World, cookie, header).uid = cookie.sub
        /\ getCurrentUser(World, cookie, forgedToken).status = 200
        /\ getCurrentUser(World, forgedToken, header).status = 401
        /\ getCurrentUser(World, emptyString, header).uid = header.sub

\* C28: for every interleaving of two concurrent RefreshAccessToken requests
\* that present the same valid refresh token, once both have completed the
\* stored refresh token is the new token returned to the request that wrote
\* the store last, it is the token of one of the two, and the token returned
\* to the other request is rejected.
C28_LastRefreshWins ==
    (Len(refreshing) = 2 /\ \A k \in DOMAIN refreshing : refreshing[k].at = "done")
    => \A k \in DOMAIN refreshing, j \in DOMAIN refreshing :
          LET last == refreshing[k]
              other == refreshing[j]
              stored == users[last.incomingRefreshToken.sub].refreshToken
          IN ( /\ other.incomingRefreshToken = last.incomingRefreshToken
               /\ other.wrote < last.wrote )
             => /\ stored = last.newRefreshToken
                /\ stored \in {refreshing[1].newRefreshToken, refreshing[2].newRefreshToken}
                /\ refreshAccessToken(World, other.newRefreshToken).status = 401

\* C29: when two Register requests with the same email (or the same
\* username) both pass the existence lookup before either creates the user,
\* one user record is created and the other request fails with 409: a
\* request in flight whose email or username has been taken since its lookup
\* creates no user and is answered 409.
C29_RacingRegisterConflicts ==
    \A q \in registering, up \in BOOLEAN :
        findByUsernameOrEmail(World, q.username, q.email) # {}
        => LET r == registerUser_create([World EXCEPT !.smtp = up],
                                        q.email, q.username, q.password)
           IN /\ r.w.users = users
              /\ r.status = 409

\* C30: every successful RefreshAccessToken returns and stores a refresh
\* token different from the one that was presented, also when the presented
\* token was issued within the same clock second.
C30_RefreshReturnsFreshToken ==
    \A T \in Credentials(World) :
        LET r == refreshAccessToken(World, T)
        IN r.status = 200
           => /\ r.w.users[r.uid].refreshToken = r.refreshToken
              /\ r.refreshToken # T

\* C31: if a Logout completed for a user and no Login for that user starts
\* afterwards, the user's stored refresh token is empty once all requests have
\* finished, also when a RefreshAccessToken for that user that had passed its
\* token comparison was in flight while the logout ran.
C31_LogoutOutlastsRefreshInFlight ==
    (\A k \in DOMAIN refreshing : refreshing[k].at = "done")
    => \A i \in loggedOut : users[i].refreshToken = emptyString

\* C32: ChangeCurrentPassword and ResetForgotPassword leave the user's stored
\* refresh token unchanged: a refresh token RefreshAccessToken accepted right
\* before the change of password is accepted right after it.
C32_kept(r) ==
    r.status = 200
    => /\ \A i \in DOMAIN users : r.w.users[i].refreshToken = users[i].refreshToken
       /\ \A T \in Credentials(World) :
             refreshAccessToken(World, T).status = 200
                => refreshAccessToken(r.w, T).status = 200
C32_PasswordChangeKeepsRefreshToken ==
    /\ \A c \in Carried(World), o \in Passwords, n \in Passwords :
          C32_kept(changeCurrentPassword(World, c[1], c[2], o, n))
    /\ \A t \in PlainTokens(World), n \in Passwords :
          C32_kept(resetForgotPassword(World, t, n))

\* A user with a stored refresh token changes the password to a different
\* one, and the refresh token is accepted before and after.
C32_Witness ==
    \E c \in Carried(World), o \in Passwords, n \in Passwords :
        LET r == changeCurrentPassword(World, c[1], c[2], o, n)
        IN /\ r.status = 200
           /\ n # o
           /\ refreshAccessToken(World, users[r.uid].refreshToken).status = 200
           /\ refreshAccessToken(r.w, users[r.uid].refreshToken).status = 200

\* The results of every request in the current state, with and without an
\* SMTP outage and a failing store.
everyResult ==
    UNION { allResults([World EXCEPT !.smtp = up, !.db = ok])
              : up \in BOOLEAN, ok \in BOOLEAN }

C34_TokenKindsNotConfused ==
    \A i \in issued :
        /\ \A c \in {<<refreshTokenOf(i), noToken>>, <<noToken, refreshTokenOf(i)>>} :
              /\ verifyJWT(World, c[1], c[2]) = 0
              /\ \A r \in protectedResults(World, c) :
                    r.status = 401 /\ r.w.users = users
        /\ LET r == refreshAccessToken(World, accessTokenOf(i))
           IN r.status = 401 /\ r.w.users = users /\ r.refreshToken = noToken

\* A user whose access token and refresh token are both accepted where they
\* belong, in the second they were issued, and turned away where they do not.
C34_Witness ==
    \E i \in issued :
        /\ getCurrentUser(World, accessTokenOf(i), noToken).status = 200
        /\ refreshAccessToken(World, refreshTokenOf(i)).status = 200
        /\ getCurrentUser(World, refreshTokenOf(i), noToken).status = 401
        /\ refreshAccessToken(World, accessTokenOf(i)).status = 401

\* The same world with the refresh token of user i as a Logout leaves it.
afterLogoutOf(w, i) == [w EXCEPT !.users[i].refreshToken = emptyString]

\* C35: the outcome of Authenticate depends on the signature and expiry of
\* the presented access token and on the existence of its subject, not on
\* the stored refresh token: two worlds that differ only in whether a user
\* has logged out give the same verifyJWT result, and an unexpired access
\* token issued before a Logout is accepted after it.
C35_AuthenticateIgnoresRefreshToken ==
    \A c \in Carried(World) :
        /\ verifyJWT(World, c[1], c[2]) # 0
              <=> authentic(World, credentialOf(c[1], c[2]))
        /\ \A i \in DOMAIN users :
              /\ verifyJWT(afterLogoutOf(World, i), c[1], c[2]) = verifyJWT(World, c[1], c[2])
              /\ getCurrentUser(afterLogoutOf(World, i), c[1], c[2]).status
                    = getCurrentUser(World, c[1], c[2]).status
        /\ LET r == logoutUser(World, c[1], c[2])
           IN r.status = 200
              => /\ r.w = afterLogoutOf(World, r.uid)
                 /\ verifyJWT(r.w, c[1], c[2]) = r.uid
                 /\ getCurrentUser(r.w, c[1], c[2]).status = 200

\* A user who has logged out (the stored refresh token is "") and whose
\* access token, issued before the logout, is still accepted.
C35_Witness ==
    \E i \in issued :
        /\ users[i.sub].refreshToken = emptyString
        /\ verifyJWT(World, accessTokenOf(i), noToken) = i.sub
        /\ getCurrentUser(World, noToken, accessTokenOf(i)).status = 200

====
